---- MODULE Spec2Model ----
(***************************************************************************)
(* xunitmerge/xmerge.py: merging of XUnit reports.                         *)
(*                                                                         *)
(* An element is a record [tag, attrib, sub]: attrib is the element's      *)
(* attribute dictionary (a function whose DOMAIN is the set of keys that   *)
(* are present), sub the tags of its descendant elements in document order *)
(* (what Element.iter walks after the element itself).  A suite is a       *)
(* record [attrib, children]; a tree is identified with its root.          *)
(* Attribute values written by six.text_type are kept as the numbers they  *)
(* print; time is counted in tenths of a second.                           *)
(***************************************************************************)
EXTENDS Integers, Sequences, FiniteSets, TLC

VARIABLES pc, trees, inputs, merged, warnings,
          test_suite, elem, hook, original_serialize, written

vars == <<pc, trees, inputs, merged, warnings,
          test_suite, elem, hook, original_serialize, written>>

\* Bound: the number of elements (suite roots and test cases) merge_xunit parses.
MaxSize == 6

\* ------------------------------------------------------------------ helpers

Range(s) == {s[i] : i \in 1..Len(s)}

\* the sequences over S of length at most n
SeqsUpTo(S, n) == UNION {[1..k -> S] : k \in 0..n}

RECURSIVE RemoveFirst(_, _)
\* list.remove(x): drops the first element equal to x
RemoveFirst(s, x) ==
    IF s = <<>> THEN <<>>
    ELSE IF Head(s) = x THEN Tail(s)
    ELSE <<Head(s)>> \o RemoveFirst(Tail(s), x)

\* ------------------------------------------------------- element predicates

is_test_state(xml_element, state) ==
    \/ xml_element.tag = state
    \/ \E i \in 1..Len(xml_element.sub) : xml_element.sub[i] = state

is_test_skipped(xml_element) == is_test_state(xml_element, "skipped")

\* the lookup written as attrib.get('name'): no KeyError
test_get_name_default(xml_element) ==
    [raised |-> FALSE,
     value |-> IF "name" \in DOMAIN xml_element.attrib
               THEN xml_element.attrib.name ELSE "None"]

\* xml_element.attrib['name']: the value, or KeyError when the key is missing
test_get_name(xml_element) ==
    IF "name" \in DOMAIN xml_element.attrib
    THEN [raised |-> FALSE, value |-> xml_element.attrib.name]
    ELSE [raised |-> TRUE, value |-> "KeyError"]

\* float(test.attrib.get('time', '0')), in tenths of a second
ParseFloat(s) ==
    CASE s = "0"   -> 0
      [] s = "0.5" -> 5
      [] s = "1.5" -> 15

TimeOf(test) ==
    ParseFloat(IF "time" \in DOMAIN test.attrib THEN test.attrib.time ELSE "0")

\* ------------------------------------------------ test_suite_update_attribs

\* tests counted for every test case, skipped or not
CountsTestsAlways(test) == test.tag = "testcase"

CountsTests(test) == ~is_test_state(test, "skipped")

CountsFailure(test) ==
    /\ ~is_test_state(test, "skipped")
    /\ is_test_state(test, "failure")

\* "if" in place of "elif": an error marker counted beside a failure marker
CountsErrorIndependent(test) ==
    /\ ~is_test_state(test, "skipped")
    /\ is_test_state(test, "error")

CountsError(test) ==
    /\ ~is_test_state(test, "skipped")
    /\ ~is_test_state(test, "failure")
    /\ is_test_state(test, "error")

\* one pass of the loop body over test, suite_state being the running totals
UpdateState(suite_state, test) ==
    [time     |-> suite_state.time + TimeOf(test),
     skipped  |-> suite_state.skipped
                    + (IF is_test_state(test, "skipped") THEN 1 ELSE 0),
     tests    |-> suite_state.tests + (IF CountsTests(test) THEN 1 ELSE 0),
     failures |-> suite_state.failures + (IF CountsFailure(test) THEN 1 ELSE 0),
     errors   |-> suite_state.errors + (IF CountsError(test) THEN 1 ELSE 0)]

InitialSuiteState ==
    [tests |-> 0, skipped |-> 0, failures |-> 0, errors |-> 0, time |-> 0]

RECURSIVE ScanTests(_, _, _)
\* for test in test_suite.iter('testcase')
ScanTests(children, i, suite_state) ==
    IF i > Len(children) THEN suite_state
    ELSE ScanTests(children, i + 1,
                   IF children[i].tag = "testcase"
                   THEN UpdateState(suite_state, children[i])
                   ELSE suite_state)

\* test_suite.set(key, ...) for every key of suite_state; other keys stay
SetAttribs(attrib, suite_state) == suite_state @@ attrib

test_suite_update_attribs(suite) ==
    [suite EXCEPT !.attrib =
        SetAttribs(@, ScanTests(suite.children, 1, InitialSuiteState))]

\* -------------------------------------------------------------- merge_trees

\* skipped_tests is a dict, kept as the sequence of its items in insertion order
InDict(d, k) == \E i \in 1..Len(d) : d[i].key = k

DictDel(d, k) == SelectSeq(d, LAMBDA e : e.key # k)

DictInsert(d, k, v) == Append(d, [key |-> k, value |-> v])

\* a dict iterated against its insertion order
DictItemsReversed(d) == [i \in 1..Len(d) |-> d[Len(d) + 1 - i]]

\* iteration order of "for test_name in skipped_tests"
DictItems(d) == d

\* the skipped test left in the first tree
RemoveSkippedKept(children, test) == children

\* first_root.remove(test) for a skipped test of the first tree
RemoveSkipped(children, test) == RemoveFirst(children, test)

\* lines 140-148: one test of the first tree
FirstStep(st, test) ==
    LET test_name == test_get_name(test).value IN
    IF is_test_skipped(test)
    THEN [st EXCEPT !.first_root = RemoveSkipped(@, test),
                    !.skipped_tests =
                        IF ~InDict(@, test_name)
                        THEN DictInsert(@, test_name, test) ELSE @]
    ELSE [st EXCEPT !.completed_tests =
                        IF test_name \notin Range(@)
                        THEN Append(@, test_name) ELSE @]

RECURSIVE FirstLoop(_, _, _)
\* for test in first_root.findall("testcase")
FirstLoop(tests, i, st) ==
    IF i > Len(tests) THEN st
    ELSE IF test_get_name(tests[i]).raised THEN [st EXCEPT !.raised = TRUE]
    ELSE FirstLoop(tests, i + 1, FirstStep(st, tests[i]))

\* line 160 without its second test
SkipAdmittedIfNotCompleted(st, test_name) ==
    test_name \notin Range(st.completed_tests)

\* line 160: a skipped test of a later tree is kept for later
SkipAdmitted(st, test_name) ==
    /\ test_name \notin Range(st.completed_tests)
    /\ ~InDict(st.skipped_tests, test_name)

\* line 168 evaluated after the name was appended (line 171)
IsDuplicateAfterAppend(st, test_name) ==
    test_name \in Range(Append(st.completed_tests, test_name))

\* line 168: the name was completed before
IsDuplicate(st, test_name) == test_name \in Range(st.completed_tests)

\* lines 158-172: one test of a later tree
OtherStep(st, test) ==
    LET test_name == test_get_name(test).value IN
    IF is_test_skipped(test)
    THEN IF SkipAdmitted(st, test_name)
         THEN [st EXCEPT !.skipped_tests = DictInsert(@, test_name, test)]
         ELSE st
    ELSE [st EXCEPT !.skipped_tests =
                        IF InDict(@, test_name) THEN DictDel(@, test_name) ELSE @,
                    !.warnings =
                        IF IsDuplicate(st, test_name)
                        THEN Append(@, test_name) ELSE @,
                    !.completed_tests =
                        IF test_name \in Range(@) THEN @ ELSE Append(@, test_name),
                    !.first_root = Append(@, test)]

RECURSIVE OtherLoop(_, _, _)
\* for test in root
OtherLoop(children, i, st) ==
    IF i > Len(children) THEN st
    ELSE IF test_get_name(children[i]).raised THEN [st EXCEPT !.raised = TRUE]
    ELSE OtherLoop(children, i + 1, OtherStep(st, children[i]))

RECURSIVE TreesLoop(_, _, _)
\* for tree in trees[1:]
TreesLoop(ts, t, st) ==
    IF t > Len(ts) \/ st.raised THEN st
    ELSE TreesLoop(ts, t + 1, OtherLoop(ts[t].children, 1, st))

RECURSIVE AppendSkipped(_, _, _)
\* lines 175-177: for test_name in skipped_tests
AppendSkipped(items, i, st) ==
    IF i > Len(items) THEN st
    ELSE AppendSkipped(items, i + 1,
            IF items[i].key \notin Range(st.completed_tests)
            THEN [st EXCEPT !.first_root = Append(@, items[i].value)]
            ELSE st)

FindAllTestcase(children) == SelectSeq(children, LAMBDA e : e.tag = "testcase")

\* the early return taken for no tree only
SingleTreeOffByOne(ts) == Len(ts) < 1

\* len(trees) <= 1: the first tree is returned as it is
SingleTree(ts) == Len(ts) <= 1

\* the loops of merge_trees, up to the first KeyError
MergeLoops(ts) ==
    LET st0 == [first_root |-> ts[1].children, skipped_tests |-> <<>>,
                completed_tests |-> <<>>, warnings |-> <<>>, raised |-> FALSE]
        st1 == FirstLoop(FindAllTestcase(ts[1].children), 1, st0)
        st2 == IF st1.raised THEN st1 ELSE TreesLoop(ts, 2, st1)
    IN  IF st2.raised THEN st2
        ELSE AppendSkipped(DictItems(st2.skipped_tests), 1, st2)

\* merge_trees(*trees): [raised, first_tree, warnings]
merge_trees(ts) ==
    IF SingleTree(ts)
    THEN [raised |-> FALSE, first_tree |-> ts[1], warnings |-> <<>>]
    ELSE LET st == MergeLoops(ts)
             root == [ts[1] EXCEPT !.children = st.first_root]
         IN  [raised |-> st.raised,
              first_tree |-> IF st.raised THEN root
                             ELSE test_suite_update_attribs(root),
              warnings |-> st.warnings]

\* ------------------------------------------------------------------- inputs

Names == {"P", "Q", "R"}

Case(attrib, sub) == [tag |-> "testcase", attrib |-> attrib, sub |-> sub]

\* the test cases the reports hold: passed, skipped (two ways), failed, and
\* one without a name
Cases ==
    {Case([name |-> n, time |-> "0.5"], <<>>) : n \in Names}
    \cup {Case([name |-> n, time |-> "0.5"], <<"skipped">>) : n \in {"Q", "R"}}
    \cup {Case([name |-> "Q"], <<"system-out", "skipped">>),
          Case([name |-> "P"], <<"failure">>),
          Case([time |-> "1.5"], <<>>)}

\* the summary attributes a report carries before it is merged
SuiteAttribs == {[name |-> "nosetests", tests |-> 7, errors |-> 1,
                  failures |-> 2, skip |-> 3]}

\* the children a parsed report may hold
ChildLists(n) == SeqsUpTo(Cases, n)

NoSuite == [attrib |-> <<>>, children |-> <<>>]

NoElem ==
    [tag |-> "", attrib |-> <<>>, text |-> [none |-> TRUE, chars |-> <<>>],
     children |-> <<>>]

RECURSIVE NumCases(_)
NumCases(ts) ==
    IF ts = <<>> THEN 0 ELSE Len(Head(ts).children) + NumCases(Tail(ts))

\* suite roots and test cases parsed so far
SizeOf(ts) == Len(ts) + NumCases(ts)

\* ----------------------------------------------------------- merge_xunit

Init ==
    /\ pc = "parse"
    /\ trees = <<>>
    /\ inputs = <<>>
    /\ merged = NoSuite
    /\ warnings = <<>>
    /\ test_suite = NoSuite
    /\ elem = NoElem
    /\ hook = "original_serialize"
    /\ original_serialize = "original_serialize"
    /\ written = <<>>

\* lines 196-197: trees.append(etree.parse(f))
Parse ==
    /\ pc = "parse"
    /\ SizeOf(trees) < MaxSize
    /\ \E a \in SuiteAttribs, cs \in ChildLists(MaxSize - SizeOf(trees) - 1) :
          /\ trees' = Append(trees, [attrib |-> a, children |-> cs])
          /\ inputs' = Append(inputs, [attrib |-> a, children |-> cs])
    /\ UNCHANGED <<pc, merged, warnings,
                   test_suite, elem, hook, original_serialize, written>>

\* line 199: merged = merge_trees(*trees); the first tree is changed in place
MergeTrees ==
    /\ pc = "parse"
    /\ IF trees = <<>>
       THEN /\ pc' = "IndexError"
            /\ UNCHANGED <<trees, merged, warnings>>
       ELSE LET r == merge_trees(trees) IN
            /\ pc' = IF r.raised THEN "KeyError" ELSE "merged"
            /\ trees' = [trees EXCEPT ![1] = r.first_tree]
            /\ merged' = IF r.raised THEN NoSuite ELSE r.first_tree
            /\ warnings' = r.warnings
    /\ UNCHANGED <<inputs, test_suite, elem, hook, original_serialize, written>>

Next == Parse \/ MergeTrees

Spec == Init /\ [][Next]_vars

\* ------------------------------------------------ properties of merge_trees

RECURSIVE AllCases(_)
\* the direct children of all the suites, in input and document order
AllCases(ts) ==
    IF ts = <<>> THEN <<>> ELSE Head(ts).children \o AllCases(Tail(ts))

Named(e, X) == "name" \in DOMAIN e.attrib /\ e.attrib.name = X

Skipped(e) == "skipped" \in Range(e.sub)

Count(cases, P(_)) == Cardinality({i \in 1..Len(cases) : P(cases[i])})

NamesOf(ts) ==
    {e.attrib.name : e \in {c \in Range(AllCases(ts)) : "name" \in DOMAIN c.attrib}}

CompletedIn(cases, X) == Count(cases, LAMBDA e : Named(e, X) /\ ~Skipped(e))

SkippedIn(cases, X) == Count(cases, LAMBDA e : Named(e, X) /\ Skipped(e))

\* merge_trees returned a tree for the parsed inputs
Returned == pc = "merged"

Merged == Returned /\ Len(inputs) >= 2

\* C1 as stated: every name of the inputs is in the output exactly once,
\* completed if it was completed in some input, skipped otherwise.
C1_ExactlyOnce ==
    Returned =>
        \A X \in NamesOf(inputs) :
            /\ CompletedIn(merged.children, X) + SkippedIn(merged.children, X) = 1
            /\ CompletedIn(AllCases(inputs), X) > 0
                   => CompletedIn(merged.children, X) = 1
            /\ CompletedIn(AllCases(inputs), X) = 0
                   => SkippedIn(merged.children, X) = 1

\* C1 amended: for two or more suites, a name completed in some input is in
\* the output once per completed occurrence and never skipped; a name never
\* completed is in the output exactly once, skipped.
C1_NamePartition ==
    Merged =>
        \A X \in NamesOf(inputs) :
            IF CompletedIn(AllCases(inputs), X) > 0
            THEN /\ CompletedIn(merged.children, X) = CompletedIn(AllCases(inputs), X)
                 /\ SkippedIn(merged.children, X) = 0
            ELSE /\ CompletedIn(merged.children, X) = 0
                 /\ SkippedIn(merged.children, X) = 1

C1_Witness ==
    /\ Merged
    /\ \E X, Y \in NamesOf(inputs) :
          /\ CompletedIn(AllCases(inputs), X) = 1
          /\ SkippedIn(AllCases(inputs), X) >= 1
          /\ CompletedIn(AllCases(inputs), Y) = 0
          /\ SkippedIn(inputs[1].children, Y) >= 1
          /\ SkippedIn(inputs[2].children, Y) >= 1

\* C2: a name skipped in one suite and completed in another one is in the
\* output as a completed case and not as a skipped one, whichever comes first.
C2_SkipOverride ==
    Returned =>
        \A X \in NamesOf(inputs) :
            (\E i, j \in 1..Len(inputs) :
                /\ i # j
                /\ SkippedIn(inputs[i].children, X) > 0
                /\ CompletedIn(inputs[j].children, X) > 0)
            => /\ CompletedIn(merged.children, X) > 0
               /\ SkippedIn(merged.children, X) = 0

C2_Witness ==
    /\ Merged
    /\ \E X, Y \in NamesOf(inputs) :
          /\ SkippedIn(inputs[1].children, X) > 0
          /\ CompletedIn(inputs[1].children, X) = 0
          /\ CompletedIn(inputs[2].children, X) > 0
          /\ CompletedIn(inputs[1].children, Y) > 0
          /\ SkippedIn(inputs[2].children, Y) > 0
          /\ CompletedIn(inputs[2].children, Y) = 0

SuitesCompleting(X) ==
    {i \in 1..Len(inputs) : CompletedIn(inputs[i].children, X) > 0}

WarningsFor(X) == Cardinality({i \in 1..Len(warnings) : warnings[i] = X})

\* C3 as stated: a name completed in two or more suites keeps every completed
\* occurrence and is warned about once per completed occurrence.
C3_WarningPerOccurrence ==
    Returned =>
        \A X \in NamesOf(inputs) :
            Cardinality(SuitesCompleting(X)) >= 2
            => /\ CompletedIn(merged.children, X) = CompletedIn(AllCases(inputs), X)
               /\ WarningsFor(X) = CompletedIn(AllCases(inputs), X)

\* C3 amended: a name completed in two or more suites keeps every completed
\* occurrence; it is warned about once per completed occurrence in the suites
\* after the first, less one if the first suite does not complete it.
C3_DuplicatesKept ==
    Returned =>
        \A X \in NamesOf(inputs) :
            Cardinality(SuitesCompleting(X)) >= 2
            => /\ CompletedIn(merged.children, X) = CompletedIn(AllCases(inputs), X)
               /\ WarningsFor(X) =
                    CompletedIn(AllCases(Tail(inputs)), X)
                    - (IF CompletedIn(inputs[1].children, X) = 0 THEN 1 ELSE 0)

C3_Witness ==
    /\ Returned
    /\ Len(inputs) = 3
    /\ \E X \in NamesOf(inputs) :
          /\ SuitesCompleting(X) = {2, 3}
          /\ CompletedIn(AllCases(inputs), X) = 3
          /\ WarningsFor(X) = 2

TestCases(suite) == SelectSeq(suite.children, LAMBDA e : e.tag = "testcase")

\* the summary attributes agree with the test cases of the suite
Consistent(suite) ==
    /\ {"tests", "skipped", "failures", "errors"} \subseteq DOMAIN suite.attrib
    /\ suite.attrib.tests + suite.attrib.skipped = Len(TestCases(suite))
    /\ suite.attrib.failures <= suite.attrib.tests
    /\ suite.attrib.errors <= suite.attrib.tests

\* C4 as stated: the tree returned for one or more suites has recomputed,
\* consistent summary attributes.
C4_ConsistentAlways == Returned => Consistent(merged)

\* C4 amended: the tree returned for two or more suites has recomputed,
\* consistent summary attributes.
C4_Consistent == Merged => Consistent(merged)

C4_Witness ==
    /\ Merged
    /\ ~Consistent(inputs[1])
    /\ \E i \in 1..Len(merged.children) : Skipped(merged.children[i])
    /\ merged.attrib.failures > 0

\* C5: one suite alone is returned as it was parsed: same children in the
\* same order, same attributes, and nothing is warned about.
C5_Identity ==
    (Returned /\ Len(inputs) = 1)
        => /\ merged = inputs[1]
           /\ trees = inputs
           /\ warnings = <<>>

C5_Witness ==
    /\ Returned
    /\ Len(inputs) = 1
    /\ Len(merged.children) >= 3
    /\ Skipped(merged.children[1])
    /\ ~Skipped(merged.children[2])
    /\ merged.children[3] = merged.children[2]
    /\ ~Consistent(merged)

CompletedAnywhere(e) ==
    \E c \in Range(AllCases(inputs)) :
        ~Skipped(c) /\ c.attrib.name = e.attrib.name

RECURSIVE FirstSkips(_, _)
\* the first skipped occurrence of every name in cases but those of seen
FirstSkips(cases, seen) ==
    IF cases = <<>> THEN <<>>
    ELSE IF Skipped(Head(cases)) /\ Head(cases).attrib.name \notin seen
         THEN <<Head(cases)>>
              \o FirstSkips(Tail(cases), seen \cup {Head(cases).attrib.name})
         ELSE FirstSkips(Tail(cases), seen)

ExpectedChildren ==
    SelectSeq(inputs[1].children, LAMBDA e : ~Skipped(e))
    \o SelectSeq(AllCases(Tail(inputs)), LAMBDA e : ~Skipped(e))
    \o SelectSeq(FirstSkips(AllCases(inputs), {}), LAMBDA e : ~CompletedAnywhere(e))

Pass(n) == Case([name |-> n, time |-> "0.5"], <<>>)

Skip(n) == Case([name |-> n, time |-> "0.5"], <<"skipped">>)

Scenario ==
    /\ Len(inputs) = 2
    /\ inputs[1].children = <<Pass("P"), Skip("Q")>>
    /\ inputs[2].children = <<Pass("Q"), Skip("R")>>

\* C6: for two or more suites the children of the merged suite are the
\* completed cases of the first suite, then the completed cases of the later
\* suites, then the surviving skipped cases in the order they were first met;
\* {P: pass, Q: skipped} and {Q: pass, R: skipped} give P, Q, R (skipped) with
\* tests=2, skipped=1, failures=0, errors=0.
C6_ChildOrder ==
    Merged =>
        /\ merged.children = ExpectedChildren
        /\ Scenario =>
            /\ merged.children = <<Pass("P"), Pass("Q"), Skip("R")>>
            /\ merged.attrib.tests = 2
            /\ merged.attrib.skipped = 1
            /\ merged.attrib.failures = 0
            /\ merged.attrib.errors = 0

C6_Witness == Merged /\ Scenario

Nameless(ts) == \E c \in Range(AllCases(ts)) : "name" \notin DOMAIN c.attrib

\* C7 as stated: for one or more suites, a direct child without a name makes
\* merge_trees fail with KeyError and return nothing.
C7_KeyErrorAlways ==
    (pc # "parse" /\ Nameless(inputs)) => (pc = "KeyError" /\ merged = NoSuite)

\* C7 amended: for two or more suites, a direct child without a name, in the
\* first suite or in a later one, makes merge_trees fail with KeyError and
\* return nothing.
C7_KeyError ==
    (pc # "parse" /\ Len(inputs) >= 2 /\ Nameless(inputs))
        => (pc = "KeyError" /\ merged = NoSuite)

C7_Witness ==
    /\ pc = "KeyError"
    /\ Len(inputs) = 3
    /\ ~Nameless(<<inputs[1], inputs[2]>>)
    /\ Nameless(<<inputs[3]>>)

\* ------------------------------------- test_suite_update_attribs on its own

\* Bound: the number of children of the suite whose attributes are recomputed.
MaxTests == 2

\* descendants of a test case, in document order
Subs == {<<>>, <<"system-out">>, <<"skipped">>, <<"failure">>, <<"error">>,
         <<"failure", "error">>, <<"error", "failure">>,
         <<"skipped", "failure">>, <<"error", "skipped">>}

SuiteChildren ==
    {Case(a, s) : a \in {[name |-> "P", time |-> "0.5"], [name |-> "Q"]},
                  s \in Subs}
    \cup {[tag |-> "properties", attrib |-> <<>>, sub |-> <<>>]}

StaleAttribs ==
    SuiteAttribs \cup {[name |-> "merged", tests |-> 9, skipped |-> 9,
                        failures |-> 9, errors |-> 9, time |-> 99]}

InitAttribs ==
    /\ pc = "attribs"
    /\ trees = <<>>
    /\ inputs = <<>>
    /\ merged = NoSuite
    /\ warnings = <<>>
    /\ test_suite \in {[attrib |-> a, children |-> cs] :
                          a \in StaleAttribs, cs \in SeqsUpTo(SuiteChildren, MaxTests)}
    /\ elem = NoElem
    /\ hook = "original_serialize"
    /\ original_serialize = "original_serialize"
    /\ written = <<>>

\* test_suite_update_attribs(test_suite): the suite is changed in place
UpdateAttribs ==
    /\ pc = "attribs"
    /\ pc' = "updated"
    /\ inputs' = <<test_suite>>
    /\ test_suite' = test_suite_update_attribs(test_suite)
    /\ UNCHANGED <<trees, merged, warnings, elem, hook, original_serialize, written>>

NextAttribs == UpdateAttribs

SpecAttribs == InitAttribs /\ [][NextAttribs]_vars

\* ---------------------------------- properties of test_suite_update_attribs

HasMarker(e, state) == state \in Range(e.sub)

\* the test cases of the suite as it was before the update
Before == TestCases(inputs[1])

\* C9: every test case is counted in exactly one bucket: with a skipped marker
\* in skipped only; otherwise in tests, and in failures if it has a failure
\* marker, else in errors if it has an error marker.  So failures + errors <=
\* tests, and the four counts replace whatever the suite carried.
C9_Buckets ==
    pc = "updated" =>
        /\ test_suite.attrib.skipped =
               Count(Before, LAMBDA e : HasMarker(e, "skipped"))
        /\ test_suite.attrib.tests =
               Count(Before, LAMBDA e : ~HasMarker(e, "skipped"))
        /\ test_suite.attrib.failures =
               Count(Before, LAMBDA e : /\ ~HasMarker(e, "skipped")
                                        /\ HasMarker(e, "failure"))
        /\ test_suite.attrib.errors =
               Count(Before, LAMBDA e : /\ ~HasMarker(e, "skipped")
                                        /\ ~HasMarker(e, "failure")
                                        /\ HasMarker(e, "error"))
        /\ test_suite.attrib.failures + test_suite.attrib.errors
               <= test_suite.attrib.tests
        /\ test_suite.attrib.tests + test_suite.attrib.skipped = Len(Before)
        /\ test_suite.attrib.name = inputs[1].attrib.name
        /\ test_suite.children = inputs[1].children

C9_Witness ==
    /\ pc = "updated"
    /\ inputs[1].attrib.tests = 9
    /\ inputs[1].attrib.skipped = 9
    /\ Len(Before) = 2
    /\ HasMarker(Before[1], "skipped") /\ HasMarker(Before[1], "failure")
    /\ HasMarker(Before[2], "failure") /\ HasMarker(Before[2], "error")
    /\ test_suite.attrib.tests = 1

\* ------------------------------------------------------- patch_etree_cname

\* Text is a sequence of one-character strings; markup is written as whole
\* tokens ("<", "<![CDATA[", "&amp;", ...).  An element of the serializer is
\* [tag, attrib, text, children]: attrib the items of the attribute
\* dictionary in insertion order, text [none |-> TRUE] for None.

CNAME_TAGS == {"system-out", "skipped", "error", "failure"}

None == [none |-> TRUE, chars |-> <<>>]

Text(chars) == [none |-> FALSE, chars |-> chars]

\* '{}'.format(x)
Format(text) == IF text.none THEN <<"N", "o", "n", "e">> ELSE text.chars

\* CNAME_PATTERN.format(text)
CNAME_PATTERN(text) == <<"<![CDATA[">> \o Format(text) \o <<"]]>">>

\* TAG_PATTERN.format(tag=tag, attrs=attrs, text=text)
TAG_PATTERN(tag, attrs, text) ==
    <<"<", tag>> \o attrs \o <<">">> \o text \o <<"</", tag, ">">>

RECURSIVE Escape(_)
\* xml.sax.saxutils.escape with the entities quoteattr adds
Escape(data) ==
    IF data = <<>> THEN <<>>
    ELSE (CASE Head(data) = "&"  -> <<"&amp;">>
            [] Head(data) = ">"  -> <<"&gt;">>
            [] Head(data) = "<"  -> <<"&lt;">>
            [] Head(data) = "\n" -> <<"&#10;">>
            [] OTHER             -> <<Head(data)>>) \o Escape(Tail(data))

\* xml.sax.saxutils.quoteattr
quoteattr(data) ==
    LET escaped == Escape(data) IN
    IF "\"" \in Range(escaped)
    THEN IF "'" \in Range(escaped)
         THEN <<"\"">>
              \o [i \in 1..Len(escaped) |->
                    IF escaped[i] = "\"" THEN "&quot;" ELSE escaped[i]]
              \o <<"\"">>
         ELSE <<"'">> \o escaped \o <<"'">>
    ELSE <<"\"">> \o escaped \o <<"\"">>

\* the order of the attribute names the reports use
KeyRank(k) ==
    CASE k = "message" -> 1
      [] k = "type"    -> 2

RECURSIVE Sorted(_)
\* sorted(elem.attrib.items()): by key, the keys being distinct
Sorted(items) ==
    IF items = <<>> THEN <<>>
    ELSE LET least == CHOOSE i \in 1..Len(items) :
                        \A j \in 1..Len(items) :
                            KeyRank(items[i].key) <= KeyRank(items[j].key)
         IN  <<items[least]>>
             \o Sorted(SelectSeq(items, LAMBDA e : e.key # items[least].key))

RECURSIVE JoinAttrs(_)
\* ' '.join(['{}={}'.format(k, quoteattr(v)) for k, v in items])
JoinAttrs(items) ==
    IF items = <<>> THEN <<>>
    ELSE <<items[1].key, "=">> \o quoteattr(items[1].value)
         \o (IF Len(items) > 1 THEN <<" ">> ELSE <<>>)
         \o JoinAttrs(Tail(items))

\* lines 58-68: what the patched serializer writes for a CNAME_TAGS element
SerializeCname(e) ==
    LET joined == JoinAttrs(Sorted(e.attrib))
        attrs == IF joined # <<>> THEN <<" ">> \o joined ELSE <<>>
    IN  TAG_PATTERN(e.tag, attrs, CNAME_PATTERN(e.text))

RECURSIVE EscapeCdata(_)
\* ElementTree._escape_cdata
EscapeCdata(data) ==
    IF data = <<>> THEN <<>>
    ELSE (CASE Head(data) = "&" -> <<"&amp;">>
            [] Head(data) = ">" -> <<"&gt;">>
            [] Head(data) = "<" -> <<"&lt;">>
            [] OTHER            -> <<Head(data)>>) \o EscapeCdata(Tail(data))

RECURSIVE EscapeAttrib(_)
\* ElementTree._escape_attrib
EscapeAttrib(data) ==
    IF data = <<>> THEN <<>>
    ELSE (CASE Head(data) = "&"  -> <<"&amp;">>
            [] Head(data) = ">"  -> <<"&gt;">>
            [] Head(data) = "<"  -> <<"&lt;">>
            [] Head(data) = "\"" -> <<"&quot;">>
            [] Head(data) = "\n" -> <<"&#10;">>
            [] OTHER             -> <<Head(data)>>) \o EscapeAttrib(Tail(data))

RECURSIVE StandardAttrs(_)
StandardAttrs(items) ==
    IF items = <<>> THEN <<>>
    ELSE <<" ", items[1].key, "=\"">> \o EscapeAttrib(items[1].value) \o <<"\"">>
         \o StandardAttrs(Tail(items))

RECURSIVE SerializeAll(_, _)
RECURSIVE Serialize(_, _)

\* line 70: ElementTree's own _serialize_xml; it serializes the children
\* through the module's _serialize_xml, which is the hook
StandardSerialize(h, e) ==
    <<"<", e.tag>> \o StandardAttrs(e.attrib)
    \o (IF (~e.text.none /\ e.text.chars # <<>>) \/ e.children # <<>>
        THEN <<">">> \o (IF e.text.none THEN <<>> ELSE EscapeCdata(e.text.chars))
             \o SerializeAll(h, e.children) \o <<"</", e.tag, ">">>
        ELSE <<" />">>)

\* lines 56-70: _serialize_xml(write, elem) while h is etree._serialize_xml
Serialize(h, e) ==
    IF h = "_serialize_xml" /\ e.tag \in CNAME_TAGS
    THEN SerializeCname(e)
    ELSE StandardSerialize(h, e)

SerializeAll(h, es) ==
    IF es = <<>> THEN <<>>
    ELSE Serialize(h, Head(es)) \o SerializeAll(h, Tail(es))

\* the elements written
Item(k, v) == [key |-> k, value |-> v]

AttribItems ==
    {<<>>,
     <<Item("type", <<"K">>)>>,
     <<Item("type", <<"K">>), Item("message", <<"a", "&", "b">>)>>,
     <<Item("message", <<"'", "\"">>), Item("type", <<"K">>)>>,
     <<Item("message", <<"\"", "<">>)>>}

Texts == {None, Text(<<>>), Text(<<"A", " ", "&", " ", "B">>), Text(<<"<", "x", ">">>)}

Leaf == [tag |-> "failure", attrib |-> <<>>, text |-> Text(<<"x">>),
         children |-> <<>>]

Elems ==
    [tag : CNAME_TAGS \cup {"testcase"}, attrib : AttribItems, text : Texts,
     children : {<<>>, <<Leaf>>}]

InitSerialize ==
    /\ pc = "call"
    /\ trees = <<>>
    /\ inputs = <<>>
    /\ merged = NoSuite
    /\ warnings = <<>>
    /\ test_suite = NoSuite
    /\ elem \in Elems
    /\ hook = "original_serialize"
    /\ original_serialize = "original_serialize"
    /\ written = <<>>

\* lines 54-74: entering "with patch_etree_cname(etree)"
PatchEnter ==
    /\ pc = "call"
    /\ original_serialize' = hook
    /\ hook' = "_serialize_xml"
    /\ pc' = "patched"
    /\ UNCHANGED <<trees, inputs, merged, warnings, test_suite, elem, written>>

\* line 207: the body of the block writes the element and completes
Write ==
    /\ pc = "patched"
    /\ written' = Serialize(hook, elem)
    /\ pc' = "written"
    /\ UNCHANGED <<trees, inputs, merged, warnings, test_suite, elem, hook,
                   original_serialize>>

\* line 207: the write raises; the exception is thrown into the generator at
\* its yield (line 74), which has no try/finally, and leaves the block
WriteRaises ==
    /\ pc = "patched"
    /\ pc' = "raised"
    /\ UNCHANGED <<trees, inputs, merged, warnings, test_suite, elem, hook,
                   original_serialize, written>>

\* line 76: the block is left after its body completed
PatchExit ==
    /\ pc = "written"
    /\ hook' = original_serialize
    /\ pc' = "restored"
    /\ UNCHANGED <<trees, inputs, merged, warnings, test_suite, elem,
                   original_serialize, written>>

\* a serialization after the block, by etree's current _serialize_xml
LaterWrite ==
    /\ pc \in {"restored", "raised"}
    /\ written' = Serialize(hook, elem)
    /\ pc' = IF pc = "restored" THEN "later" ELSE "later_after_raise"
    /\ UNCHANGED <<trees, inputs, merged, warnings, test_suite, elem, hook,
                   original_serialize>>

NextSerialize == PatchEnter \/ Write \/ WriteRaises \/ PatchExit \/ LaterWrite

SpecSerialize == InitSerialize /\ [][NextSerialize]_vars

\* ----------------------------------------------- properties of the patch

\* C8: an element tagged system-out, skipped, error or failure is written as
\* its opening tag with the attributes sorted by name, one CDATA section
\* holding its text as it is (nothing when it has no text), and its closing
\* tag; none of its children is written.
C8_CdataLeaf ==
    (pc = "written" /\ elem.tag \in CNAME_TAGS) =>
        written =
            <<"<", elem.tag>>
            \o (IF elem.attrib = <<>> THEN <<>>
                ELSE <<" ">> \o JoinAttrs(Sorted(elem.attrib)))
            \o <<">", "<![CDATA[">>
            \o (IF elem.text.none THEN <<>> ELSE elem.text.chars)
            \o <<"]]>", "</", elem.tag, ">">>

\* C10: once the block is left, by its body completing or by the write
\* raising, etree's serializer is the one installed before the block.
C10_HookRestored ==
    pc \in {"restored", "raised"} => hook = "original_serialize"

====
